---- MODULE Spec2Model ----
(***************************************************************************)
(* A model of two pieces of the repository:                                *)
(*   - ebooks/metadata/book/base.py: the Metadata record, its attribute    *)
(*     dispatch (__getattribute__ / __setattr__), identifier and custom    *)
(*     field management, and smart_update (the two-mode merge);            *)
(*   - cocoalib/cocoa/__init__.py: ThreadedJobPerformer._async_run, the    *)
(*     createPool / destroyPool wrapping of a worker task.                 *)
(*                                                                         *)
(* Python values are tagged tuples (None, Str, Num, List, Tuple, Dict), a  *)
(* Python string is a sequence of one-character strings, so lower(),       *)
(* strip() and replace() are computed character by character.  A Metadata  *)
(* object is the record                                                    *)
(*   [data, tags, cell, ids, um, at]                                       *)
(* data = _data's standard fields, tags = the content of the list object   *)
(* bound to _data['tags'], ids = _data['identifiers'],                     *)
(* um = _data['user_metadata'], at = the instance __dict__.  The tag list  *)
(* is a heap object (tagsRef, heap) because smart_update both rebinds it   *)
(* (self.tags = other.tags) and mutates it in place.                       *)
(***************************************************************************)
EXTENDS Integers, Sequences, FiniteSets, TLC

(***************************************************************************)
(* Bounds of the model.  MaxTags: the longest list (of tags, of a custom   *)
(* field) a record holds; a call that would leave a longer one is not      *)
(* taken.  MaxTasks: the tasks one worker thread runs.                     *)
(***************************************************************************)
MaxTags == 2
MaxTasks == 2

(***************************************************************************)
(* Python strings.                                                         *)
(***************************************************************************)
Min(S) == CHOOSE x \in S : \A y \in S : x <= y
Max(S) == CHOOSE x \in S : \A y \in S : x >= y

LowerChar(c) ==
  CASE c = "A" -> "a" [] c = "B" -> "b" [] c = "D" -> "d" [] c = "E" -> "e"
    [] c = "N" -> "n" [] c = "U" -> "u" [] c = "X" -> "x" [] OTHER -> c

lower(s) == [i \in DOMAIN s |-> LowerChar(s[i])]

strip(s) ==
  LET keep == {i \in DOMAIN s : s[i] # " "}
  IN  IF keep = {} THEN <<>> ELSE SubSeq(s, Min(keep), Max(keep))

remove(s, c) == SelectSeq(s, LAMBDA x : x # c)

replace(s, c, d) == [i \in DOMAIN s |-> IF s[i] = c THEN d ELSE s[i]]

(***************************************************************************)
(* Python values.                                                          *)
(***************************************************************************)
None == <<"None">>
Str(s) == <<"str", s>>
Num(n) == <<"num", n>>
List(l) == <<"list", l>>
Tuple2(a, b) == <<"tuple", a, b>>
Dict(d) == <<"dict", d>>
AttributeError == <<"AttributeError">>
Absent == <<"absent">>

IsList(v) == v[1] = "list"

\* bool(v)
Truthy(v) ==
  CASE v[1] = "None" -> FALSE
    [] v[1] = "str" -> v[2] # <<>>
    [] v[1] = "num" -> v[2] # 0
    [] v[1] = "list" -> v[2] # <<>>
    [] v[1] = "dict" -> DOMAIN v[2] # {}
    [] v[1] = "tuple" -> TRUE
    [] OTHER -> FALSE

UNKNOWN == <<"U", "n", "k", "n", "o", "w", "n">>
UND == <<"u", "n", "d">>
EmptyMap == <<>>

(***************************************************************************)
(* The field-name sets imported from the package (from . import ...).      *)
(***************************************************************************)
TOP_LEVEL_IDENTIFIERS == {"isbn"}

STANDARD_METADATA_FIELDS ==
  {"title", "title_sort", "authors", "author_sort", "author_sort_map", "tags",
   "cover_data", "comments", "series", "series_index", "language",
   "identifiers"}

SC_COPYABLE_FIELDS == {"series", "series_index"}

SC_FIELDS_COPY_NOT_NULL == {"comments"}

\* the standard fields held as plain values in _data
DataFields == STANDARD_METADATA_FIELDS \ {"tags", "identifiers"}

\* the key of _data['identifiers'] a top-level identifier field reads
KeyOf(field) == CASE field = "isbn" -> <<"i", "s", "b", "n">> [] OTHER -> <<>>

\* field.startswith('#')
startswith_hash(field) == field \in {"#t", "#s", "#t_index"}

\* field.endswith('_index')
endswith_index(field) == field \in {"#t_index", "series_index"}

\* field[:-6]
strip_index(field) ==
  CASE field = "#t_index" -> "#t" [] field = "series_index" -> "series"
    [] OTHER -> field

NULL_VALUES_has(field) ==
  field \in {"cover_data", "tags", "identifiers", "author_sort_map", "authors",
             "title", "language"}

\* NULL_VALUES.get(field, None)
NULL_VALUES(field) ==
  CASE field = "cover_data" -> Tuple2(None, None)
    [] field = "tags" -> List(<<>>)
    [] field = "identifiers" -> Dict(EmptyMap)
    [] field = "author_sort_map" -> Dict(EmptyMap)
    [] field = "authors" -> List(<<UNKNOWN>>)
    [] field = "title" -> Str(UNKNOWN)
    [] field = "language" -> Str(UND)
    [] OTHER -> None

(***************************************************************************)
(* The program's state.                                                    *)
(***************************************************************************)
Recs == {"m1", "m2"}
Cells == {"c1", "c2"}
Workers == {"w1", "w2"}

VARIABLES data, tagsRef, heap, idents, umeta, attrs, last,
          pc, held, created, destroyed, tasks, outcome

mvars == <<data, tagsRef, heap, idents, umeta, attrs, last>>
pvars == <<pc, held, created, destroyed, tasks, outcome>>
vars == <<data, tagsRef, heap, idents, umeta, attrs, last,
          pc, held, created, destroyed, tasks, outcome>>

\* the Metadata object r as a value
ObjOf(r) ==
  [data |-> data[r], tags |-> heap[tagsRef[r]], cell |-> "same",
   ids |-> idents[r], um |-> umeta[r], at |-> attrs[r]]

(***************************************************************************)
(* Metadata.__init__: _data = deepcopy(NULL_VALUES); title and authors as  *)
(* given (here the defaults).                                              *)
(***************************************************************************)
NewData == [f \in DataFields |-> NULL_VALUES(f)]

MapPut(m, k, v) == [x \in (DOMAIN m) \cup {k} |-> IF x = k THEN v ELSE m[x]]
MapDel(m, k) == [x \in (DOMAIN m) \ {k} |-> m[x]]
\* dict.update: entries of n override those of m
MapUpdate(m, n) ==
  [x \in (DOMAIN m) \cup (DOMAIN n) |-> IF x \in DOMAIN n THEN n[x] ELSE m[x]]
Range(s) == {s[i] : i \in DOMAIN s}

(***************************************************************************)
(* Attribute reads.                                                        *)
(***************************************************************************)
\* get_extra(field) with the default None; AttributeError for an undeclared
\* field
get_extra(S, field) ==
  IF field \in DOMAIN S.um
  THEN IF S.um[field].extra = Absent THEN None ELSE S.um[field].extra
  ELSE AttributeError

\* object.__getattribute__(self, field): the instance __dict__
object_getattribute(S, field) ==
  IF field \in DOMAIN S.at THEN S.at[field] ELSE AttributeError

\* __getattribute__(field); the value AttributeError stands for the raise
getattribute(S, field) ==
  IF field \in TOP_LEVEL_IDENTIFIERS
  THEN IF KeyOf(field) \in DOMAIN S.ids THEN S.ids[KeyOf(field)] ELSE None
  ELSE IF field \in STANDARD_METADATA_FIELDS
  THEN CASE field = "tags" -> List(S.tags)
         [] field = "identifiers" -> Dict(S.ids)
         [] OTHER -> S.data[field]
  ELSE IF object_getattribute(S, field) # AttributeError
  THEN object_getattribute(S, field)
  ELSE IF /\ startswith_hash(field)
          /\ endswith_index(field)
          /\ get_extra(S, strip_index(field)) # AttributeError
  THEN get_extra(S, strip_index(field))
  ELSE AttributeError

\* get(field, default)
get(S, field, default) ==
  IF getattribute(S, field) # AttributeError
  THEN getattribute(S, field)
  ELSE default

(***************************************************************************)
(* Identifiers.                                                            *)
(***************************************************************************)
\* _clean_identifier(typ, val): the pair <<typ, val>>
clean_typ(typ) ==
  IF Truthy(typ)
  THEN Str(remove(remove(strip(lower(typ[2])), ":"), ","))
  ELSE typ

clean_val(val) ==
  IF Truthy(val)
  THEN Str(replace(replace(strip(val[2]), ",", "|"), ":", "|"))
  ELSE val

clean_identifier(typ, val) == <<clean_typ(typ), clean_val(val)>>

\* set_identifiers(identifiers): the dicts `cleaned` can end as.  Two keys
\* of `identifiers` that clean to the same key overwrite each other in the
\* dict's iteration order, which the program does not fix: every entry that
\* can be written last is a possible value.
set_identifiers(identifiers) ==
  LET cl == [k \in DOMAIN identifiers |->
               clean_identifier(Str(k), identifiers[k])]
      kept == {k \in DOMAIN identifiers : Truthy(cl[k][1]) /\ Truthy(cl[k][2])}
      keys == {cl[k][1][2] : k \in kept}
      last_written(x) == {cl[k][2] : k \in {j \in kept : cl[j][1][2] = x}}
  IN  {c \in [keys -> {cl[k][2] : k \in kept}] :
         \A x \in keys : c[x] \in last_written(x)}

\* set_identifier(typ, val)
set_identifier(S, typ, val) ==
  LET c == clean_identifier(typ, val)
      popped == MapDel(S.ids, c[1][2])
  IN  IF ~Truthy(c[1]) THEN S
      ELSE IF Truthy(c[2])
      THEN [S EXCEPT !.ids = MapPut(popped, c[1][2], c[2])]
      ELSE [S EXCEPT !.ids = popped]

(***************************************************************************)
(* Attribute writes.                                                       *)
(***************************************************************************)
\* __setattr__(field, val, extra) for every field but the pseudo-field
\* 'identifiers' (see setattr_results)
setattr(S, field, val, extra) ==
  IF field \in TOP_LEVEL_IDENTIFIERS
  THEN LET c == clean_identifier(Str(KeyOf(field)), val)
           popped == MapDel(S.ids, c[1][2])
       IN  IF Truthy(c[2])
           THEN [S EXCEPT !.ids = MapPut(popped, c[1][2], c[2])]
           ELSE [S EXCEPT !.ids = popped]
  ELSE IF field \in STANDARD_METADATA_FIELDS
  THEN LET v == IF val = None THEN NULL_VALUES(field) ELSE val
       IN  IF field = "tags"
           THEN [S EXCEPT !.tags = v[2], !.cell = "fresh"]
           ELSE [S EXCEPT !.data[field] = v]
  ELSE IF field \in DOMAIN S.um
  THEN [S EXCEPT !.um[field].value = val, !.um[field].extra = extra]
  ELSE [S EXCEPT !.at = MapPut(S.at, field, val)]

\* __setattr__(field, val, extra): the objects it can leave
setattr_results(S, field, val, extra) ==
  IF field \notin TOP_LEVEL_IDENTIFIERS /\ field = "identifiers"
  THEN {[S EXCEPT !.ids = c] :
          c \in set_identifiers(IF Truthy(val) THEN val[2] ELSE EmptyMap)}
  ELSE {setattr(S, field, val, extra)}

\* set(field, val, extra)
set(S, field, val, extra) == setattr_results(S, field, val, extra)

(***************************************************************************)
(* Custom fields.                                                          *)
(***************************************************************************)
\* set_user_metadata raises AttributeError
set_user_metadata_raises(field) == ~startswith_hash(field)

\* a set_user_metadata that stores under any field name
set_user_metadata_any(S, field, metadata) ==
  IF metadata = None THEN S
  ELSE LET m == metadata[2]
           v == IF m.value # Absent THEN m.value
                ELSE IF m.datatype = "text" /\ m.is_multiple THEN List(<<>>)
                ELSE None
       IN  [S EXCEPT !.um = MapPut(S.um, field, [m EXCEPT !.value = v])]

\* set_user_metadata(field, metadata); metadata is None or Dict(record)
set_user_metadata(S, field, metadata) ==
  IF set_user_metadata_raises(field) \/ metadata = None THEN S
  ELSE LET m == metadata[2]
           v == IF m.value # Absent THEN m.value
                ELSE IF m.datatype = "text" /\ m.is_multiple THEN List(<<>>)
                ELSE None
       IN  [S EXCEPT !.um = MapPut(S.um, field, [m EXCEPT !.value = v])]

RECURSIVE set_all_from(_, _, _)
set_all_from(S, metadata, keys) ==
  IF keys = {} THEN S
  ELSE LET k == CHOOSE x \in keys : TRUE
       IN  set_all_from(set_user_metadata(S, k, Dict(metadata[k])), metadata,
                        keys \ {k})

\* set_all_user_metadata(metadata), metadata a dict
set_all_user_metadata(S, metadata) ==
  set_all_from(S, metadata, DOMAIN metadata)


(***************************************************************************)
(* smart_update.                                                           *)
(***************************************************************************)
\* list.index(t)
index(l, t) == Min({i \in DOMAIN l : l[i] = t})

lower_all(l) == [i \in DOMAIN l |-> lower(l[i])]

\* a merge that respells every receiver tag of a shared form
merge_tags_respell_all(self_tags, other_tags) ==
  LET lotags == lower_all(other_tags)
      lstags == lower_all(self_tags)
      ot == Range(lotags)
      st == Range(lstags)
      replaced ==
        [i \in DOMAIN self_tags |->
           IF lstags[i] \in (st \cap ot)
           THEN other_tags[index(lotags, lstags[i])]
           ELSE self_tags[i]]
  IN  replaced \o SelectSeq(other_tags, LAMBDA t : lower(t) \in (ot \ st))

\* The case-insensitive, case-preserving merge of the list other_tags into
\* the list self_tags: the content of self_tags after lines 385-392 (and
\* 411-418)
merge_tags(self_tags, other_tags) ==
  LET lotags == lower_all(other_tags)
      lstags == lower_all(self_tags)
      ot == Range(lotags)
      st == Range(lstags)
      replaced ==
        [i \in DOMAIN self_tags |->
           IF lstags[i] \in (st \cap ot) /\ index(lstags, lstags[i]) = i
           THEN other_tags[index(lotags, lstags[i])]
           ELSE self_tags[i]]
  IN  replaced \o SelectSeq(other_tags, LAMBDA t : lower(t) \in (ot \ st))

\* The object passed as `other`: a Metadata object (meta, with obj its state
\* and cell the list object bound to its tags) or a duck-typed object with
\* the attributes of the function f, that has get_all_user_metadata (which
\* smart_update calls unconditionally when replace_metadata is true) but
\* neither get_identifiers nor custom_field_keys.
NoObj ==
  [data |-> NewData, tags |-> <<>>, cell |-> "same", ids |-> EmptyMap,
   um |-> EmptyMap, at |-> EmptyMap]

MetaSource(S, c) == [meta |-> TRUE, obj |-> S, cell |-> c, f |-> EmptyMap]
DuckSource(f) == [meta |-> FALSE, obj |-> NoObj, cell |-> "fresh", f |-> f]

hasattr(O, attr) ==
  IF O.meta THEN getattribute(O.obj, attr) # AttributeError
  ELSE attr \in DOMAIN O.f

getattr(O, attr, default) ==
  IF ~hasattr(O, attr) THEN default
  ELSE IF O.meta THEN getattribute(O.obj, attr)
  ELSE O.f[attr]

\* callable(getattr(other, 'get_identifiers', None)), and the same for
\* custom_field_keys
has_get_identifiers(O) == O.meta
has_custom_field_keys(O) == O.meta

\* other.get_all_user_metadata(make_copy=True)
get_all_user_metadata(O) == IF O.meta THEN O.obj.um ELSE EmptyMap

\* copy_not_none(dest, src, attr)
copy_not_none(dest, src, attr) ==
  LET v == getattr(src, attr, None)
  IN  IF v # None /\ v # NULL_VALUES(attr)
      THEN setattr(dest, attr, v, None)
      ELSE dest

RECURSIVE copy_not_none_all(_, _, _)
copy_not_none_all(dest, src, fields) ==
  IF fields = {} THEN dest
  ELSE LET a == CHOOSE x \in fields : TRUE
       IN  copy_not_none_all(copy_not_none(dest, src, a), src, fields \ {a})

\* lines 365-367
RECURSIVE copy_all(_, _, _)
copy_all(dest, src, fields) ==
  IF fields = {} THEN dest
  ELSE LET a == CHOOSE x \in fields : TRUE
           v == getattr(src, a, IF a = "series_index" THEN Num(1) ELSE None)
       IN  copy_all(setattr(dest, a, v, None), src, fields \ {a})

\* lines 351-354
update_title(S, O) ==
  LET t == getattr(O, "title", None)
  IN  IF Truthy(t) /\ t # Str(UNKNOWN)
      THEN LET a == setattr(S, "title", t, None)
           IN  IF hasattr(O, "title_sort")
               THEN setattr(a, "title_sort", getattr(O, "title_sort", None),
                            None)
               ELSE a
      ELSE S

\* lines 356-361
update_authors(S, O) ==
  LET au == getattr(O, "authors", None)
  IN  IF Truthy(au) /\ au[2][1] # UNKNOWN
      THEN LET a == setattr(S, "authors", au, None)
               b == IF hasattr(O, "author_sort_map")
                    THEN setattr(a, "author_sort_map",
                                 getattr(O, "author_sort_map", None), None)
                    ELSE a
           IN  IF hasattr(O, "author_sort")
               THEN setattr(b, "author_sort", getattr(O, "author_sort", None),
                            None)
               ELSE b
      ELSE S

\* an overwrite that keeps the receiver's previous tags
replace_tags_keeps(S, O) ==
  [setattr(S, "tags", List(S.tags \o getattr(O, "tags", None)[2]), None)
     EXCEPT !.cell = IF O.meta THEN O.cell ELSE "fresh"]

\* line 368: self.tags = other.tags binds other's list object itself (a
\* record's; the list of a duck-typed source is held by no record)
replace_tags(S, O) ==
  [setattr(S, "tags", getattr(O, "tags", None), None)
     EXCEPT !.cell = IF O.meta THEN O.cell ELSE "fresh"]

\* lines 383-392
update_tags(S, O) ==
  LET other_tags == getattr(O, "tags", None)
  IN  IF Truthy(other_tags)
      THEN [S EXCEPT !.tags = merge_tags(S.tags, other_tags[2])]
      ELSE S

\* len() of a cover blob, '' when the blob is falsy
cover_len(blob) == IF Truthy(blob) THEN Len(blob[2]) ELSE 0

\* a cover merge in which a tie goes to the source
update_cover_ties(S, O) ==
  LET oc == getattr(O, "cover_data", <<"bool", FALSE>>)
      sc == getattribute(S, "cover_data")
      other_cover == oc[3]
      self_cover == IF Truthy(sc) THEN sc[3] ELSE Str(<<>>)
  IN  IF Truthy(oc) /\ cover_len(other_cover) >= cover_len(self_cover)
      THEN setattr(S, "cover_data", oc, None)
      ELSE S

\* lines 394-400
update_cover(S, O) ==
  LET oc == getattr(O, "cover_data", <<"bool", FALSE>>)
      sc == getattribute(S, "cover_data")
      other_cover == oc[3]
      self_cover == IF Truthy(sc) THEN sc[3] ELSE Str(<<>>)
  IN  IF Truthy(oc) /\ cover_len(other_cover) > cover_len(self_cover)
      THEN setattr(S, "cover_data", oc, None)
      ELSE S

\* lines 404-419 for the custom field x of other
update_custom(S, O, x) ==
  LET meta == O.obj.um[x]
      self_tags == get(S, x, List(<<>>))
      a == set_user_metadata(S, x, Dict(meta))
      other_tags == get(O.obj, x, List(<<>>))
      merged == merge_tags(self_tags[2], other_tags[2])
      \* self_tags is the list object of the instance __dict__ when the
      \* attribute exists: the merge changes it in place
      b == IF x \in DOMAIN a.at THEN [a EXCEPT !.at[x] = List(merged)] ELSE a
  IN  IF meta.datatype = "text" /\ meta.is_multiple
      THEN setattr(b, x, List(merged), None)
      ELSE a

RECURSIVE update_custom_all(_, _, _)
update_custom_all(S, O, keys) ==
  IF keys = {} THEN S
  ELSE LET x == CHOOSE k \in keys : TRUE
       IN  update_custom_all(update_custom(S, O, x), O, keys \ {x})

\* len(s.strip()) of a comment, '' when it is falsy
comment_len(c) == IF Truthy(c) THEN Len(strip(c[2])) ELSE 0

\* lines 421-428
update_comments(S, O) ==
  LET my_comments == getattribute(S, "comments")
      other_comments == getattr(O, "comments", Str(<<>>))
  IN  IF comment_len(other_comments) > comment_len(my_comments)
      THEN setattr(S, "comments", other_comments, None)
      ELSE S

\* an end of smart_update that leaves series_index as it is
post_process_keeps(S, O) ==
  LET other_lang == getattr(O, "language", None)
  IN  IF Truthy(other_lang) /\ lower(other_lang[2]) # UND
      THEN setattr(S, "language", other_lang, None)
      ELSE S

\* lines 441-445
post_process(S, O) ==
  LET other_lang == getattr(O, "language", None)
      a == IF Truthy(other_lang) /\ lower(other_lang[2]) # UND
           THEN setattr(S, "language", other_lang, None)
           ELSE S
  IN  IF ~Truthy(getattr(MetaSource(a, "same"), "series", None))
      THEN setattr(a, "series_index", None, None)
      ELSE a

\* smart_update up to its write of the identifiers
before_identifiers(S, O, replace_metadata) ==
  LET t == update_authors(update_title(S, O), O)
  IN  IF replace_metadata
      THEN LET a1 == copy_all(t, O, SC_COPYABLE_FIELDS)
               a2 == replace_tags(a1, O)
               a3 == setattr(a2, "cover_data",
                             getattr(O, "cover_data", NULL_VALUES("cover_data")),
                             None)
               a4 == set_all_user_metadata(a3, get_all_user_metadata(O))
           IN  copy_not_none_all(a4, O, SC_FIELDS_COPY_NOT_NULL)
      ELSE LET b1 == copy_not_none_all(t, O, SC_COPYABLE_FIELDS)
               b2 == copy_not_none_all(b1, O, SC_FIELDS_COPY_NOT_NULL)
               b3 == update_tags(b2, O)
               b4 == update_cover(b3, O)
               b5 == IF has_custom_field_keys(O)
                     THEN update_custom_all(b4, O, DOMAIN O.obj.um)
                     ELSE b4
           IN  update_comments(b5, O)

\* the dict smart_update passes to set_identifiers (lines 375, 432-435)
identifiers_arg(S, O, replace_metadata) ==
  IF replace_metadata THEN O.obj.ids
  ELSE LET d == S.ids
           s == O.obj.ids
       IN  MapUpdate(d, [k \in {x \in DOMAIN s : s[x] # None} |-> s[k]])

\* smart_update from its write of the identifiers on (lines 374-375,
\* 431-445); p is the object as before_identifiers left it and cleaned the
\* dict that set_identifiers builds
from_identifiers(p, O, replace_metadata, cleaned) ==
  LET q == IF has_get_identifiers(O) THEN [p EXCEPT !.ids = cleaned]
           ELSE IF replace_metadata THEN p
           ELSE copy_not_none_all(p, O, TOP_LEVEL_IDENTIFIERS)
  IN  post_process(q, O)

\* smart_update(other, replace_metadata): the objects it can leave
smart_update(S, O, replace_metadata) ==
  LET p == before_identifiers(S, O, replace_metadata)
  IN  IF has_get_identifiers(O)
      THEN {from_identifiers(p, O, replace_metadata, c) :
              c \in set_identifiers(identifiers_arg(p, O, replace_metadata))}
      ELSE {from_identifiers(p, O, replace_metadata, EmptyMap)}

(***************************************************************************)
(* The duck-typed objects the model passes as the source of smart_update.  *)
(* title, authors and tags are read unconditionally, so each has them.     *)
(***************************************************************************)
Duck(tags, more) ==
  [a \in {"title", "authors", "tags"} \cup DOMAIN more |->
     CASE a \in DOMAIN more -> more[a]
       [] a = "title" -> None
       [] a = "authors" -> List(<<>>)
       [] a = "tags" -> List(tags)]

One(a, v) == [x \in {a} |-> v]
Two(a, v, b, w) == [x \in {a, b} |-> IF x = a THEN v ELSE w]

JPG == Str(<<"j">>)

DuckObj(d) ==
  CASE d = "t0" -> Duck(<<>>, EmptyMap)
    [] d = "t2" -> Duck(<< <<"A">>, <<"b">> >>, EmptyMap)
    [] d = "t3" -> Duck(<< <<"a">>, <<"A">> >>, EmptyMap)
    [] d = "k1" -> Duck(<<>>, One("comments", None))
    [] d = "k2" -> Duck(<<>>, One("comments", Str(<<>>)))
    [] d = "k3" -> Duck(<<>>, One("comments", Str(<<"x", " ">>)))
    [] d = "k4" -> Duck(<<>>, One("comments", Str(<<"x", "y">>)))
    [] d = "v1" -> Duck(<<>>, One("cover_data", None))
    [] d = "v2" -> Duck(<<>>, One("cover_data", Tuple2(None, None)))
    [] d = "v3" -> Duck(<<>>, One("cover_data", Tuple2(JPG, Str(<<"p">>))))
    [] d = "v4" -> Duck(<<>>, One("cover_data", Tuple2(JPG, Str(<<"p", "q">>))))
    [] d = "s1" -> Duck(<<>>, One("series", Str(<<"s">>)))
    [] d = "s2" -> Duck(<<>>, Two("series", None, "series_index", Num(2)))
    [] d = "s3" -> Duck(<<>>, Two("series", Str(<<>>), "series_index", Num(2)))
    [] d = "i1" -> Duck(<<>>, One("isbn", Str(<<"1">>)))

(***************************************************************************)
(* The records and the calls made on them.  last names the call that led   *)
(* to the current state: the operation, its receiver, for smart_update the *)
(* source (a record's name or a duck-typed object's) and the mode, for the *)
(* setters the field and the value; pre is every record as it was before  *)
(* the call.                                                               *)
(***************************************************************************)
Snapshot == [r \in Recs |-> ObjOf(r)]

NoCall ==
  [op |-> "init", self |-> "none", src |-> "none", replace |-> FALSE,
   field |-> "none", typ |-> None, val |-> None, raised |-> FALSE,
   pre |-> [r \in Recs |-> NoObj]]

Called(op, r) == [NoCall EXCEPT !.op = op, !.self = r, !.pre = Snapshot]

\* the source object a call names
SourceOf(src) ==
  IF src \in Recs THEN MetaSource(ObjOf(src), tagsRef[src])
  ELSE DuckSource(DuckObj(src))

\* the lists of the model stay within its bound
WithinBounds(S) ==
  /\ Len(S.tags) <= MaxTags
  /\ \A x \in DOMAIN S.um :
       IsList(S.um[x].value) => Len(S.um[x].value[2]) <= MaxTags

\* Cells are named after the first record bound to them: the name of a list
\* object is not observable.
RecOrder(r) == IF r = "m1" THEN 1 ELSE 2
CellOfRec(r) == IF r = "m1" THEN "c1" ELSE "c2"

Canon(ref, hp) ==
  LET rep(r) == CHOOSE q \in Recs :
                  /\ ref[q] = ref[r]
                  /\ \A x \in Recs : ref[x] = ref[r] => RecOrder(q) <= RecOrder(x)
      nref == [r \in Recs |-> CellOfRec(rep(r))]
  IN  <<nref,
        [c \in Cells |->
           IF \E r \in Recs : nref[r] = c
           THEN hp[ref[CHOOSE r \in Recs : nref[r] = c]]
           ELSE <<>>]>>

\* Bind the tag list of S to record r: the same list object (changed in
\* place, so every record bound to it sees the change), a new list object,
\* or the list object of another record (S.cell names it).
Rebind(r, S) ==
  LET shared == \E q \in Recs \ {r} : tagsRef[q] = tagsRef[r]
      free == CHOOSE c \in Cells : \A q \in Recs : tagsRef[q] # c
  IN  CASE S.cell = "same" ->
             Canon(tagsRef, [heap EXCEPT ![tagsRef[r]] = S.tags])
        [] S.cell = "fresh" /\ ~shared ->
             Canon(tagsRef, [heap EXCEPT ![tagsRef[r]] = S.tags])
        [] S.cell = "fresh" /\ shared ->
             Canon([tagsRef EXCEPT ![r] = free],
                   [heap EXCEPT ![free] = S.tags])
        [] OTHER ->
             Canon([tagsRef EXCEPT ![r] = S.cell], heap)

Store(r, S) ==
  LET bound == Rebind(r, S)
  IN  /\ WithinBounds(S)
      /\ data' = [data EXCEPT ![r] = S.data]
      /\ idents' = [idents EXCEPT ![r] = S.ids]
      /\ umeta' = [umeta EXCEPT ![r] = S.um]
      /\ attrs' = [attrs EXCEPT ![r] = S.at]
      /\ tagsRef' = bound[1]
      /\ heap' = bound[2]

InitRecords ==
  /\ data = [r \in Recs |-> NewData]
  /\ tagsRef = [r \in Recs |-> CellOfRec(r)]
  /\ heap = [c \in Cells |-> <<>>]
  /\ idents = [r \in Recs |-> EmptyMap]
  /\ umeta = [r \in Recs |-> EmptyMap]
  /\ attrs = [r \in Recs |-> [a \in {"author"} |-> List(<<UNKNOWN>>)]]
  /\ last = NoCall

\* r.set(field, val, extra)
Set(r, field, val, extra) ==
  /\ \E S \in set(ObjOf(r), field, val, extra) : Store(r, S)
  /\ last' = [Called("set", r) EXCEPT !.field = field, !.val = val]
  /\ UNCHANGED pvars

\* r.set_identifier(typ, val)
SetIdentifier(r, typ, val) ==
  /\ Store(r, set_identifier(ObjOf(r), typ, val))
  /\ last' = [Called("set_identifier", r) EXCEPT !.typ = typ, !.val = val]
  /\ UNCHANGED pvars

\* r.set_user_metadata(field, metadata)
SetUserMetadata(r, field, metadata) ==
  /\ Store(r, set_user_metadata(ObjOf(r), field, metadata))
  /\ last' = [Called("set_user_metadata", r) EXCEPT
                !.field = field, !.val = metadata,
                !.raised = set_user_metadata_raises(field)]
  /\ UNCHANGED pvars

\* r.smart_update(src, replace_metadata)
SmartUpdate(r, src, replace_metadata) ==
  /\ \E S \in smart_update(ObjOf(r), SourceOf(src), replace_metadata) :
       Store(r, S)
  /\ last' = [Called("smart_update", r) EXCEPT
                !.src = src, !.replace = replace_metadata]
  /\ UNCHANGED pvars

(***************************************************************************)
(* ThreadedJobPerformer._async_run: each worker thread w runs its tasks    *)
(* one after the other.  pc is the thread's position in _async_run, held   *)
(* the number of native pools it holds, created / destroyed the calls of   *)
(* proxy.createPool() / proxy.destroyPool() it has made, outcome how the   *)
(* body of its latest task ended.                                          *)
(***************************************************************************)
\* a release that is skipped when the body raised
destroys_on_return(how) == how = "returned"

\* the finally clause runs destroyPool however the try block ended
finally_destroys(how) == TRUE

InitPool ==
  /\ pc = [w \in Workers |-> "idle"]
  /\ held = [w \in Workers |-> 0]
  /\ created = [w \in Workers |-> 0]
  /\ destroyed = [w \in Workers |-> 0]
  /\ tasks = [w \in Workers |-> 0]
  /\ outcome = [w \in Workers |-> "none"]

\* line 23: proxy.createPool()
CreatePool(w) ==
  /\ pc[w] = "idle"
  /\ tasks[w] < MaxTasks
  /\ pc' = [pc EXCEPT ![w] = "try"]
  /\ held' = [held EXCEPT ![w] = @ + 1]
  /\ created' = [created EXCEPT ![w] = @ + 1]
  /\ outcome' = [outcome EXCEPT ![w] = "none"]
  /\ UNCHANGED <<destroyed, tasks>>
  /\ UNCHANGED mvars

\* line 25: the call of ThreadedJobPerformerBase._async_run starts
EnterBody(w) ==
  /\ pc[w] = "try"
  /\ pc' = [pc EXCEPT ![w] = "body"]
  /\ UNCHANGED <<held, created, destroyed, tasks, outcome>>
  /\ UNCHANGED mvars

\* line 25: the call returns
BodyReturns(w) ==
  /\ pc[w] = "body"
  /\ pc' = [pc EXCEPT ![w] = "finally"]
  /\ outcome' = [outcome EXCEPT ![w] = "returned"]
  /\ UNCHANGED <<held, created, destroyed, tasks>>
  /\ UNCHANGED mvars

\* line 25: the call raises
BodyRaises(w) ==
  /\ pc[w] = "body"
  /\ pc' = [pc EXCEPT ![w] = "finally"]
  /\ outcome' = [outcome EXCEPT ![w] = "raised"]
  /\ UNCHANGED <<held, created, destroyed, tasks>>
  /\ UNCHANGED mvars

\* lines 26-27: finally: proxy.destroyPool(); then _async_run returns or
\* lets the exception through, and the task is over
DestroyPool(w) ==
  /\ pc[w] = "finally"
  /\ pc' = [pc EXCEPT ![w] = "idle"]
  /\ held' = [held EXCEPT ![w] = IF finally_destroys(outcome[w]) THEN @ - 1
                                 ELSE @]
  /\ destroyed' = [destroyed EXCEPT
                     ![w] = IF finally_destroys(outcome[w]) THEN @ + 1 ELSE @]
  /\ tasks' = [tasks EXCEPT ![w] = @ + 1]
  /\ UNCHANGED <<created, outcome>>
  /\ UNCHANGED mvars

PoolNext ==
  \E w \in Workers :
    \/ CreatePool(w)
    \/ EnterBody(w)
    \/ BodyReturns(w)
    \/ BodyRaises(w)
    \/ DestroyPool(w)

(***************************************************************************)
(* The values the callers of the model pass.                               *)
(***************************************************************************)
TagNames == {<<"a">>, <<"A">>, <<"b">>}
TagLists ==
  {<<>>} \cup {<<x>> : x \in TagNames} \cup {<<x, y>> : x, y \in TagNames}
TagDucks == {"t0", "t2", "t3"}

Init == InitRecords /\ InitPool

(***************************************************************************)
(* SpecTags: the calls that read and write tags.                           *)
(***************************************************************************)
NextTags ==
  \E r \in Recs :
    \/ \E l \in TagLists : Set(r, "tags", List(l), None)
    \/ \E src \in Recs \cup TagDucks, b \in BOOLEAN : SmartUpdate(r, src, b)

SpecTags == Init /\ [][NextTags]_vars

SpecPool ==
  /\ Init
  /\ [][PoolNext]_vars
  /\ \A w \in Workers :
       /\ WF_vars(EnterBody(w))
       /\ WF_vars(BodyReturns(w) \/ BodyRaises(w))
       /\ WF_vars(DestroyPool(w))

(***************************************************************************)
(* SpecCustom: the calls that declare, write and merge the custom field    *)
(* '#t'.                                                                   *)
(***************************************************************************)
TextMultiple(value) ==
  [datatype |-> "text", is_multiple |-> TRUE, value |-> value, extra |-> Absent]

CustomMetas ==
  {TextMultiple(Absent), TextMultiple(List(<< <<"a">> >>)),
   [datatype |-> "int", is_multiple |-> FALSE, value |-> Num(1),
    extra |-> Absent],
   [datatype |-> "int", is_multiple |-> FALSE, value |-> Absent,
    extra |-> Absent]}

CustomLists == {<< <<"b">> >>}

NextCustom ==
  \E r \in Recs :
    \/ \E m \in CustomMetas : SetUserMetadata(r, "#t", Dict(m))
    \/ SetUserMetadata(r, "#t", None)
    \/ SetUserMetadata(r, "t", Dict(TextMultiple(Absent)))
    \/ \E l \in CustomLists : Set(r, "#t", List(l), None)
    \/ \E src \in Recs, b \in BOOLEAN : SmartUpdate(r, src, b)

SpecCustom == Init /\ [][NextCustom]_vars

(***************************************************************************)
(* SpecIds: the calls that write and merge identifiers.                    *)
(***************************************************************************)
IdTyps == {Str(<<"a">>), Str(<<"a", " ", ":">>)}
IdVals == {Str(<<"1">>), Str(<<"2", ":">>), None}
IdDucks == {"i1"}

NextIds ==
  \E r \in Recs :
    \/ \E typ \in IdTyps, val \in IdVals : SetIdentifier(r, typ, val)
    \/ \E src \in Recs \cup IdDucks, b \in BOOLEAN : SmartUpdate(r, src, b)

SpecIds == Init /\ [][NextIds]_vars

(***************************************************************************)
(* SpecComments: the calls that write and merge comments.                  *)
(***************************************************************************)
CommentVals == {None, Str(<<>>), Str(<<"x", " ">>), Str(<<"x", "y">>)}
CommentDucks == {"t0", "k1", "k2", "k3", "k4"}

NextComments ==
  \E r \in Recs :
    \/ \E v \in CommentVals : Set(r, "comments", v, None)
    \/ \E src \in Recs \cup CommentDucks, b \in BOOLEAN : SmartUpdate(r, src, b)

SpecComments == Init /\ [][NextComments]_vars

(***************************************************************************)
(* SpecCover: the calls that write and merge cover_data.                   *)
(***************************************************************************)
CoverVals ==
  {None, Tuple2(JPG, Str(<<>>)), Tuple2(JPG, Str(<<"p">>)),
   Tuple2(JPG, Str(<<"p", "q">>))}
CoverDucks == {"t0", "v1", "v2", "v3", "v4"}

NextCover ==
  \E r \in Recs :
    \/ \E v \in CoverVals : Set(r, "cover_data", v, None)
    \/ \E src \in Recs \cup CoverDucks, b \in BOOLEAN : SmartUpdate(r, src, b)

SpecCover == Init /\ [][NextCover]_vars

(***************************************************************************)
(* SpecSeries: the calls that write and merge series and series_index.     *)
(***************************************************************************)
SeriesVals == {None, Str(<<"s">>)}
IndexVals == {None, Num(2)}
SeriesDucks == {"t0", "s1", "s2", "s3"}

NextSeries ==
  \E r \in Recs :
    \/ \E v \in SeriesVals : Set(r, "series", v, None)
    \/ \E v \in IndexVals : Set(r, "series_index", v, None)
    \/ \E src \in Recs \cup SeriesDucks, b \in BOOLEAN : SmartUpdate(r, src, b)

SpecSeries == Init /\ [][NextSeries]_vars

(***************************************************************************)
(* SpecAccess: set on a field of each class of one record, with '#t'       *)
(* declared or not.                                                        *)
(***************************************************************************)
AccessFields == {"isbn", "title", "#t", "foo"}
AccessVals == {Str(<<"v">>), Str(<<"w">>)}

NextAccess ==
  \E r \in {"m1"} :
    \/ SetUserMetadata(r, "#t", Dict(TextMultiple(Absent)))
    \/ \E f \in AccessFields, v \in AccessVals : Set(r, f, v, None)

SpecAccess == Init /\ [][NextAccess]_vars

(***************************************************************************)
(* What the properties below read of the latest call.                      *)
(***************************************************************************)
Tags(r) == heap[tagsRef[r]]

SmartUpdated(replace_metadata) ==
  last.op = "smart_update" /\ last.replace = replace_metadata

\* the receiver's tag list before / after the latest call
PreTags == last.pre[last.self].tags
PostTags == Tags(last.self)

\* the source's tag list when the latest call was made
SourceTags ==
  IF last.src \in Recs THEN last.pre[last.src].tags
  ELSE DuckObj(last.src)["tags"][2]

LowerForms(l) == {lower(l[i]) : i \in DOMAIN l}

\* the tags of l whose lower-cased form is not in the set forms, in order
NewTags(l, forms) == SelectSeq(l, LAMBDA t : lower(t) \notin forms)

\* C1, as stated: after a Mode B call with a non-empty source tag list, the
\* receiver's tags are its previous tags in their positions, each tag that
\* also occurs case-insensitively in the source carrying a spelling of the
\* source, followed by the source tags of a new lower-cased form in the
\* source's order.
C1_EverySharedTagRespelled ==
  (SmartUpdated(FALSE) /\ SourceTags # <<>>) =>
    /\ PostTags = SubSeq(PostTags, 1, Len(PreTags))
                    \o NewTags(SourceTags, LowerForms(PreTags))
    /\ Len(PostTags) >= Len(PreTags)
    /\ \A i \in DOMAIN PreTags :
         IF lower(PreTags[i]) \in LowerForms(SourceTags)
         THEN \E j \in DOMAIN SourceTags :
                /\ lower(SourceTags[j]) = lower(PreTags[i])
                /\ PostTags[i] = SourceTags[j]
         ELSE PostTags[i] = PreTags[i]

\* the first position of l whose tag has the lower-cased form of t
FirstOfForm(l, t) ==
  CHOOSE i \in DOMAIN l :
    /\ lower(l[i]) = lower(t)
    /\ \A k \in 1..(i - 1) : lower(l[k]) # lower(t)

\* C1, amended: after a Mode B call with a non-empty source tag list, the
\* receiver's tags are its previous tags in their positions, where for each
\* lower-cased form the two lists share only the FIRST receiver tag of that
\* form is respelled, as the FIRST source tag of that form, and every other
\* receiver tag is unchanged; then follow the source tags of a new
\* lower-cased form, in the source's order.
C1_TagMerge ==
  (SmartUpdated(FALSE) /\ SourceTags # <<>>) =>
    /\ PostTags = SubSeq(PostTags, 1, Len(PreTags))
                    \o NewTags(SourceTags, LowerForms(PreTags))
    /\ Len(PostTags) >= Len(PreTags)
    /\ \A i \in DOMAIN PreTags :
         IF /\ lower(PreTags[i]) \in LowerForms(SourceTags)
            /\ FirstOfForm(PreTags, PreTags[i]) = i
         THEN PostTags[i] = SourceTags[FirstOfForm(SourceTags, PreTags[i])]
         ELSE PostTags[i] = PreTags[i]

\* a Mode B merge that respelled the first "A" of ["A", "A"] and left the
\* second
C1_Witness ==
  /\ SmartUpdated(FALSE)
  /\ SourceTags = << <<"a">> >>
  /\ PreTags = << <<"A">>, <<"A">> >>
  /\ PostTags = << <<"a">>, <<"A">> >>

\* C3, as stated: a smart_update call changes no record but its receiver.
RecordState(r) ==
  [data |-> data[r], tags |-> Tags(r), ids |-> idents[r], um |-> umeta[r],
   at |-> attrs[r]]

PreState(r) ==
  [data |-> last.pre[r].data, tags |-> last.pre[r].tags,
   ids |-> last.pre[r].ids, um |-> last.pre[r].um, at |-> last.pre[r].at]

C3_OnlyReceiverChanges ==
  last.op = "smart_update" =>
    \A r \in Recs \ {last.self} : RecordState(r) = PreState(r)

\* C6: after a Mode A call the receiver's tag list is the source's tag list,
\* whatever the receiver's tags were and also when the source's list is
\* empty.
C6_TagsOverwritten ==
  SmartUpdated(TRUE) => PostTags = SourceTags

\* a Mode A call with a source without tags emptied a list of two tags
C6_Witness ==
  /\ SmartUpdated(TRUE)
  /\ Len(PreTags) = 2
  /\ SourceTags = <<>>
  /\ PostTags = <<>>

\* the receiver before the latest call, and the source record
PreObj == last.pre[last.self]
SrcObj == last.pre[last.src]

\* the attribute attr of the source of the latest call, None when it has none
SourceAttr(attr) ==
  IF last.src \in Recs THEN SrcObj.data[attr]
  ELSE IF attr \in DOMAIN DuckObj(last.src) THEN DuckObj(last.src)[attr]
  ELSE None

IsTextMultiple(m) == m.datatype = "text" /\ m.is_multiple

\* the list stored for the custom field x in the object S, [] when none is
ListOf(S, x) ==
  IF x \in DOMAIN S.um /\ IsList(S.um[x].value) THEN S.um[x].value[2]
  ELSE <<>>

\* C2, as stated: after a Mode B call, for each text / multiple custom field
\* of the source the value stored in the receiver holds every entry of the
\* source's list and, up to case, every entry of the receiver's previous list.
C2_CustomListsMerged ==
  (SmartUpdated(FALSE) /\ last.src \in Recs) =>
    \A x \in DOMAIN SrcObj.um :
      IsTextMultiple(SrcObj.um[x]) =>
        /\ x \in DOMAIN umeta[last.self]
        /\ \A t \in Range(ListOf(SrcObj, x)) :
             t \in Range(ListOf(ObjOf(last.self), x))
        /\ \A t \in Range(ListOf(PreObj, x)) :
             lower(t) \in LowerForms(ListOf(ObjOf(last.self), x))

\* C4, as stated: after a Mode B call with a source that has
\* get_identifiers, the receiver's identifiers hold every scheme the receiver
\* had and every scheme of the source, a scheme of the source with the
\* source's value and a scheme of the receiver alone with its previous value.
C4_IdentifiersUnion ==
  (SmartUpdated(FALSE) /\ last.src \in Recs) =>
    LET mine == PreObj.ids
        theirs == SrcObj.ids
        post == idents[last.self]
    IN  /\ (DOMAIN mine \cup DOMAIN theirs) \subseteq DOMAIN post
        /\ \A k \in DOMAIN theirs : theirs[k] # None => post[k] = theirs[k]
        /\ \A k \in DOMAIN mine \ DOMAIN theirs : post[k] = mine[k]

\* len(c.strip()) of a comment, 0 for None
StrippedLen(c) == IF c = None THEN 0 ELSE Len(strip(c[2]))

\* C5, as stated: after a Mode B call the receiver's comments are the
\* source's when their stripped length is strictly greater than that of the
\* receiver's previous comments, and the receiver's previous comments
\* otherwise.
C5_LongerCommentWins ==
  SmartUpdated(FALSE) =>
    data[last.self]["comments"] =
      IF StrippedLen(SourceAttr("comments")) >
           StrippedLen(PreObj.data["comments"])
      THEN SourceAttr("comments")
      ELSE PreObj.data["comments"]

\* the length of the byte blob of a cover_data pair, 0 when there is none
BlobLen(cv) == IF cv = None \/ cv[3] = None THEN 0 ELSE Len(cv[3][2])

\* C7: after a Mode B call the receiver's cover_data is the source's when
\* the source's blob is strictly longer than the receiver's previous blob,
\* and the receiver's previous cover_data otherwise; a missing, None or
\* empty blob has length zero.
C7_LongerCoverWins ==
  SmartUpdated(FALSE) =>
    data[last.self]["cover_data"] =
      IF BlobLen(SourceAttr("cover_data")) > BlobLen(PreObj.data["cover_data"])
      THEN SourceAttr("cover_data")
      ELSE PreObj.data["cover_data"]

\* a Mode B call took the source's longer cover
C7_Witness ==
  /\ SmartUpdated(FALSE)
  /\ PreObj.data["cover_data"] = Tuple2(JPG, Str(<<"p">>))
  /\ SourceAttr("cover_data") = Tuple2(JPG, Str(<<"p", "q">>))
  /\ data[last.self]["cover_data"] = Tuple2(JPG, Str(<<"p", "q">>))

\* C8: after every smart_update call, in either mode, a receiver whose
\* series is None has the series_index None.
C8_SeriesIndexReset ==
  last.op = "smart_update" =>
    (data[last.self]["series"] = None =>
       data[last.self]["series_index"] = None)

\* a Mode A call from a source with neither series nor series_index, which
\* assigns the default 1.0 to series_index, on a receiver that had both
C8_Witness ==
  /\ SmartUpdated(TRUE)
  /\ last.src = "t0"
  /\ PreObj.data["series"] = Str(<<"s">>)
  /\ PreObj.data["series_index"] = Num(2)
  /\ data[last.self]["series"] = None
  /\ data[last.self]["series_index"] = None

\* C9, as stated: after set(field, v), get(field) returns v, for a field of
\* each class.
C9_GetReadsWhatSetWrote ==
  last.op = "set" => get(ObjOf(last.self), last.field, None) = last.val

\* C10: a task body only runs with the pool of its thread created; every
\* created pool is destroyed exactly once, after the body, however the body
\* ended; and every pool created is eventually destroyed.
PoolSafety ==
  \A w \in Workers :
    /\ held[w] = created[w] - destroyed[w]
    /\ held[w] \in {0, 1}
    /\ pc[w] \in {"try", "body", "finally"} => held[w] = 1
    /\ pc[w] = "idle" => held[w] = 0 /\ destroyed[w] = tasks[w]

C10_PoolWrapsTask ==
  /\ []PoolSafety
  /\ \A w \in Workers : (held[w] = 1) ~> (held[w] = 0)

\* a task whose body raised is over and its pool destroyed
C10_Witness ==
  \E w \in Workers :
    /\ outcome[w] = "raised"
    /\ pc[w] = "idle"
    /\ created[w] >= 1
    /\ destroyed[w] = created[w]

\* a scheme as the identifier map is meant to key it: non-empty, lower-case,
\* without leading or trailing whitespace, without ':' and ','
CleanScheme(k) ==
  /\ k # <<>>
  /\ lower(k) = k
  /\ k[1] # " " /\ k[Len(k)] # " "
  /\ \A i \in DOMAIN k : k[i] \notin {":", ","}

\* a value as the identifier map is meant to hold it: a non-empty string
\* without ':' and ','
CleanValue(v) ==
  /\ v[1] = "str"
  /\ v[2] # <<>>
  /\ \A i \in DOMAIN v[2] : v[2][i] \notin {":", ","}

\* C11, as stated: in every reachable state every key of every record's
\* identifier map is non-empty, lower-case, free of leading and trailing
\* whitespace and of ':' and ',', and every value is non-empty and free of
\* ':' and ','.
C11_IdentifiersClean ==
  \A r \in Recs :
    \A k \in DOMAIN idents[r] :
      CleanScheme(k) /\ CleanValue(idents[r][k])

\* C12: set_user_metadata with a key that does not start with '#' raises and
\* stores nothing; with a '#' key and a record it stores the record, with
\* the value [] (datatype text, is_multiple) or None (otherwise) when the
\* record brings none; and in every reachable state every key of
\* user_metadata starts with '#' and its record has a value.
C12_CustomStoreKeyed ==
  /\ \A r \in Recs :
       \A x \in DOMAIN umeta[r] :
         startswith_hash(x) /\ umeta[r][x].value # Absent
  /\ last.op = "set_user_metadata" =>
       IF ~startswith_hash(last.field)
       THEN last.raised /\ ObjOf(last.self) = PreObj
       ELSE IF last.val = None
       THEN ObjOf(last.self) = PreObj
       ELSE LET m == last.val[2]
                stored == umeta[last.self][last.field]
            IN  /\ ~last.raised
                /\ stored.datatype = m.datatype
                /\ stored.is_multiple = m.is_multiple
                /\ stored.value =
                     IF m.value # Absent THEN m.value
                     ELSE IF IsTextMultiple(m) THEN List(<<>>)
                     ELSE None

\* set_user_metadata('t', ...) raised on a record that has '#t' declared,
\* and left it as it was
C12_Witness ==
  /\ last.op = "set_user_metadata"
  /\ last.field = "t"
  /\ last.raised
  /\ DOMAIN umeta[last.self] = {"#t"}
  /\ ObjOf(last.self) = PreObj

====
